---- MODULE Spec2Model ----
(***************************************************************************)
(* Model of backend/app.py: the Flask prediction service.                  *)
(*                                                                         *)
(*   validate_input   (app.py 54-78)    pure check of a record             *)
(*   preprocess_input (app.py 80-117)   label encoding with the lazy       *)
(*                                      append of 'Unknown' to the shared  *)
(*                                      encoders, zero fill, reordering    *)
(*   predict          (app.py 119-159)  POST /predict                      *)
(*                                                                         *)
(* Worker threads run predict() concurrently; the only shared mutable      *)
(* state is label_encoders (each encoder's classes_ array).  A thread's    *)
(* steps are split exactly where it reads or writes classes_.              *)
(***************************************************************************)
EXTENDS Integers, Sequences, FiniteSets, TLC

\* ------------------------------------------------------------------------
\* Bounds of the model.
NumThreads == 3     \* worker threads serving requests concurrently
MaxEdits == 2       \* features by which a generated record departs from the base record

Threads == 1..NumThreads

\* ------------------------------------------------------------------------
\* Constants of the program.

\* app.py 48-52
FEATURES ==
    << "channel_name", "category", "Sub-category", "Item_price",
       "connected_handling_time", "response_delay", "survey_delay",
       "sentiment_score", "Agent_name", "Agent Shift", "Tenure Bucket" >>

\* app.py 72-73
numeric_features ==
    << "Item_price", "connected_handling_time", "response_delay",
       "survey_delay", "sentiment_score" >>

Range(s) == { s[i] : i \in 1..Len(s) }

\* ------------------------------------------------------------------------
\* Values of a JSON document.  t is the Python type of the value, s its text
\* (a str, or the single element of a list), n its number (an int as
\* itself, a float x.5 as x).
V(t, s, n) == [t |-> t, s |-> s, n |-> n]
StrV(s)    == V("str", s, 0)
IntV(n)    == V("int", "", n)
FloatV(n)  == V("float", "", n)
ListV(s)   == V("list", s, 0)      \* the JSON array [s]

\* A dict is a sequence of <<key, value>> pairs with distinct keys, in
\* insertion order (the order of the keys in the request body).
Keys(pairs)        == { pairs[i][1] : i \in 1..Len(pairs) }
Get(pairs, k)      == (CHOOSE i \in 1..Len(pairs) : pairs[i][1] = k)
Lookup(pairs, k)   == pairs[Get(pairs, k)][2]
Put(pairs, k, v)   ==
    IF k \in Keys(pairs)
    THEN [pairs EXCEPT ![Get(pairs, k)] = <<k, v>>]
    ELSE Append(pairs, <<k, v>>)

\* What request.json hands to validate_input: a JSON object, a JSON array of
\* strings, or a JSON scalar that is no container (null, a number).
Object(pairs) == [kind |-> "object", pairs |-> pairs, elems |-> <<>>]
Array(elems)  == [kind |-> "array",  pairs |-> <<>>,  elems |-> elems]
JsonNull      == [kind |-> "null",   pairs |-> <<>>,  elems |-> <<>>]

\* ------------------------------------------------------------------------
\* Exceptions and messages.  A message is a tuple of its text pieces.
NoExc           == [type |-> "none", msg |-> <<>>]
Exc(type, msg)  == [type |-> type, msg |-> msg]

MissingMsg(f)   == << "Missing required feature: ", f >>           \* app.py 69
NumericMsg(f)   == << "Feature ", f, " must be numeric" >>         \* app.py 76

\* ------------------------------------------------------------------------
\* validate_input, app.py 54-78.

\* `feature in data` (app.py 68, 75): key lookup on a dict, element
\* membership on a list, TypeError on a value that is no container.
InRaises(data)     == data.kind = "null"
In(f, data)        ==
    CASE data.kind = "object" -> f \in Keys(data.pairs)
      [] data.kind = "array"  -> f \in Range(data.elems)
      [] OTHER                -> FALSE

\* `data[feature]` (app.py 75): only a dict can be indexed by a name.
IndexRaises(data)  == data.kind # "object"

\* isinstance(x, (int, float)), app.py 75
IsNumber(x) == x.t \in {"int", "float"}

\* A faulty loop of app.py 67-69 that reports no missing feature.
MissingLoopNone(data, i, errors) == errors

\* app.py 67-69: one message per schema feature that is not in data, in
\* schema order.
RECURSIVE MissingLoop(_, _, _)
MissingLoop(data, i, errors) ==
    IF i > Len(FEATURES) THEN errors
    ELSE MissingLoop(data, i + 1,
            IF ~In(FEATURES[i], data)
            THEN Append(errors, MissingMsg(FEATURES[i]))
            ELSE errors)

\* app.py 74-76: one message per numeric feature that is present and is no
\* int or float.  Indexing a list by a name raises TypeError.
RECURSIVE NumericLoop(_, _, _)
NumericLoop(data, i, errors) ==
    IF i > Len(numeric_features) THEN [raised |-> NoExc, errors |-> errors]
    ELSE LET f == numeric_features[i] IN
         IF ~In(f, data) THEN NumericLoop(data, i + 1, errors)
         ELSE IF IndexRaises(data)
              THEN [raised |-> Exc("TypeError", <<"list indices must be integers">>),
                    errors |-> <<>>]
              ELSE IF ~IsNumber(Lookup(data.pairs, f))
                   THEN NumericLoop(data, i + 1, Append(errors, NumericMsg(f)))
                   ELSE NumericLoop(data, i + 1, errors)

\* A faulty validate_input that stops at its first failure.
validate_input_first(data) ==
    LET r == NumericLoop(data, 1, MissingLoop(data, 1, <<>>)) IN
    IF InRaises(data)
    THEN [raised |-> Exc("TypeError", <<"argument is not iterable">>), errors |-> <<>>]
    ELSE [raised |-> r.raised,
          errors |-> IF Len(r.errors) > 1 THEN << r.errors[1] >> ELSE r.errors]

validate_input(data) ==
    IF InRaises(data)
    THEN [raised |-> Exc("TypeError", <<"argument is not iterable">>), errors |-> <<>>]
    ELSE NumericLoop(data, 1, MissingLoop(data, 1, <<>>))

\* ------------------------------------------------------------------------
\* The label encoders, app.py 41 and 97-105.  label_encoders is a dict, a
\* sequence of <<column, classes_>> pairs; classes_ is the array of class
\* strings, and the code of a class is its 0-based position.

\* `x in le.classes_` (app.py 101), numpy's (classes_ == x).any(): a str is
\* compared with each class, a one-element list broadcasts to its element,
\* a number equals no string.
Contains(classes, x) ==
    /\ x.t \in {"str", "list"}
    /\ x.s \in Range(classes)

\* A faulty lambda that keeps every value, seen or not.
SubstituteKeep(x, classes) == x

\* The lambda of app.py 101.
Substitute(x, classes) == IF Contains(classes, x) THEN x ELSE StrV("Unknown")

\* A faulty test of app.py 103 that never finds 'Unknown', so that every
\* call appends it.
HasUnknownNever(classes) == FALSE

\* app.py 103
HasUnknown(classes) == "Unknown" \in Range(classes)

\* np.append(le.classes_, 'Unknown'), app.py 104: a new array.
np_append(classes) == Append(classes, "Unknown")

\* le.transform, app.py 105.  sklearn maps each label through the table
\* {class: position}, built in array order, so the last position of a
\* repeated class wins; a label that is no key of the table (an unseen
\* string, an unhashable list) raises, and preprocess_input re-raises it
\* as ValueError (app.py 115-117).
LastIndex(classes, s) ==
    CHOOSE i \in 1..Len(classes) :
        /\ classes[i] = s
        /\ \A j \in (i + 1)..Len(classes) : classes[j] # s

transform(classes, x) ==
    IF x.t = "str" /\ x.s \in Range(classes)
    THEN [raised |-> NoExc, code |-> LastIndex(classes, x.s) - 1]
    ELSE [raised |-> Exc("ValueError", <<"y contains previously unseen labels">>),
          code |-> 0]

\* app.py 108-110: the schema features that are no column of df, each to
\* be added as a column holding 0.
MissingColumns(df) == { f \in Range(FEATURES) : f \notin Keys(df) }

RECURSIVE ZeroFill(_, _)
ZeroFill(df, i) ==
    IF i > Len(FEATURES) THEN df
    ELSE ZeroFill(IF FEATURES[i] \notin Keys(df)
                  THEN Append(df, <<FEATURES[i], IntV(0)>>)
                  ELSE df,
                  i + 1)

\* A faulty return that leaves out df = df[FEATURES]: the row in the order
\* of df's own columns.
ReorderNone(df) == [i \in 1..Len(FEATURES) |-> df[i][2]]

\* df[FEATURES].values, app.py 113-114: the row, one entry per schema
\* feature, in schema order.
Reorder(df) == [i \in 1..Len(FEATURES) |-> Lookup(df, FEATURES[i])]

\* app.py 117
Wrapped(e) == Exc("ValueError", <<"Preprocessing failed: ">> \o e.msg)

\* ------------------------------------------------------------------------
\* The persisted encoder bundles the service may be started with
\* (joblib.load, app.py 41).  Classes are sorted and distinct, as
\* LabelEncoder.fit leaves them; "Unknown" may or may not be a trained class.
Bundles ==
    { << <<"channel_name", <<"Email", "Inbound", "Outcall">> >> >>,
      << <<"channel_name", <<"Email", "Unknown", "Web">> >>,
         <<"category", <<"Order", "Returns">> >> >>,
      << <<"Agent Shift", <<"Evening", "Morning">> >>,
         <<"Manager", <<"Bob", "Eve">> >>,
         <<"channel_name", <<"Email", "Inbound", "Unknown">> >> >> }

\* ------------------------------------------------------------------------
\* Records.  The base record holds every schema feature with a trained
\* class or a number; a generated record departs from it in at most
\* MaxEdits keys, and lists its keys in schema order or in reverse.
ExtraKey == "Manager"
AllKeys  == FEATURES \o << ExtraKey >>

Reverse(s) == [i \in 1..Len(s) |-> s[Len(s) + 1 - i]]

KeyOrders == { AllKeys, Reverse(AllKeys) }

BaseValue(k) ==
    CASE k = "channel_name"            -> StrV("Email")
      [] k = "category"                -> StrV("Returns")
      [] k = "Sub-category"            -> StrV("Late delivery")
      [] k = "Item_price"              -> IntV(100)
      [] k = "connected_handling_time" -> IntV(5)
      [] k = "response_delay"          -> FloatV(2)
      [] k = "survey_delay"            -> IntV(1)
      [] k = "sentiment_score"         -> FloatV(0)
      [] k = "Agent_name"              -> StrV("Ann")
      [] k = "Agent Shift"             -> StrV("Morning")
      [] k = "Tenure Bucket"           -> StrV(">90")
      [] OTHER                         -> StrV("Bob")

\* What an edit may do to a key: drop it ("absent"), or give it another
\* value.  ExtraKey is absent from the base record; its edit adds it.
Options(k) ==
    CASE k = "channel_name"    -> {"absent", "unseen", "unknown", "int"}
      [] k = "category"        -> {"absent", "unseen"}
      [] k = "Agent Shift"     -> {"absent", "unknown"}
      [] k = "Item_price"      -> {"absent", "text", "float"}
      [] k = "sentiment_score" -> {"absent", "text"}
      [] k = "survey_delay"    -> {"absent", "float"}
      [] k = ExtraKey          -> {"present", "unseen"}
      [] OTHER                 -> {"absent"}

AllOptions == {"absent", "present", "unseen", "unknown", "int", "text", "float"}

Edited(k, opt) ==
    CASE opt = "unseen"  -> StrV("Chat")
      [] opt = "unknown" -> StrV("Unknown")
      [] opt = "int"     -> IntV(7)
      [] opt = "text"    -> StrV("free")
      [] opt = "float"   -> FloatV(9)
      [] OTHER           -> BaseValue(k)

EditSets == { S \in SUBSET Range(AllKeys) : Cardinality(S) <= MaxEdits }

Edits == UNION { { e \in [S -> AllOptions] : \A k \in S : e[k] \in Options(k) }
                 : S \in EditSets }

Present(e, k) ==
    IF k \in DOMAIN e THEN e[k] # "absent" ELSE k # ExtraKey

ValueOf(e, k) == IF k \in DOMAIN e THEN Edited(k, e[k]) ELSE BaseValue(k)

RECURSIVE Build(_, _, _)
Build(order, e, i) ==
    IF i > Len(order) THEN <<>>
    ELSE IF Present(e, order[i])
         THEN << <<order[i], ValueOf(e, order[i])>> >> \o Build(order, e, i + 1)
         ELSE Build(order, e, i + 1)

Records == { Build(order, e, 1) : order \in KeyOrders, e \in Edits }

BaseRecord == Build(AllKeys, << >>, 1)

\* ------------------------------------------------------------------------
\* Requests to POST /predict.  is_json is request.is_json (the content
\* type), parses whether request.json can parse the body, json the parsed
\* document.
NotJson   == [is_json |-> FALSE, parses |-> FALSE, json |-> JsonNull]
Malformed == [is_json |-> TRUE,  parses |-> FALSE, json |-> JsonNull]
Json(doc) == [is_json |-> TRUE,  parses |-> TRUE,  json |-> doc]

ServerRecords ==
    { BaseRecord,
      Put(BaseRecord, "channel_name", StrV("Chat")),
      Put(BaseRecord, "channel_name", ListV("Email")),
      Put(BaseRecord, "Item_price", StrV("free")),
      SelectSeq(BaseRecord, LAMBDA p : p[1] # "sentiment_score") }

ServerRequests ==
    { NotJson, Malformed, Json(JsonNull), Json(Array(<<>>)), Json(Array(FEATURES)) }
        \cup { Json(Object(r)) : r \in ServerRecords }

\* The requests the concurrent clients send: the ones that reach the encoders,
\* and one that is rejected before.
ConcurrentRequests ==
    { Json(Object(BaseRecord)),
      Json(Object(Put(BaseRecord, "channel_name", StrV("Chat")))),
      Json(Object(Put(BaseRecord, "channel_name", ListV("Email")))),
      Json(Object(Put(BaseRecord, "Item_price", StrV("free")))) }

AllRequests == ServerRequests \cup { Json(Object(r)) : r \in Records }

\* What model.predict / model.predict_proba and the assembly of the
\* response (app.py 141-152) can do: return class 0 or 1, or raise.
ModelOutcomes ==
    { [raised |-> NoExc, pred |-> 0],
      [raised |-> NoExc, pred |-> 1],
      [raised |-> Exc("ValueError", <<"could not convert string to float">>), pred |-> 0],
      [raised |-> Exc("RuntimeError", <<"model failure">>), pred |-> 0] }

\* ------------------------------------------------------------------------
\* Responses, app.py 130, 137, 147-152, 156, 159.
NoResp == [status |-> 0, error |-> <<>>, details |-> <<>>, prediction |-> 0, label |-> ""]

ErrorResp(status, error, details) ==
    [status |-> status, error |-> error, details |-> details,
     prediction |-> 0, label |-> ""]

OkResp(pred) ==
    [status |-> 200, error |-> <<>>, details |-> <<>>, prediction |-> pred,
     label |-> IF pred = 1 THEN "High CSAT" ELSE "Low CSAT"]

InternalError == ErrorResp(500, <<"Internal server error">>, <<>>)      \* app.py 159

\* ------------------------------------------------------------------------
\* State.
VARIABLES
    label_encoders,   \* app.py 41: the shared dict column -> classes_
    pc,               \* per thread: where it is in predict / preprocess_input
    frame             \* per thread: the locals of the call it is running

vars == << label_encoders, pc, frame >>

\* The locals of one call.  entry is the function the caller invoked;
\* col is the position in label_encoders of the loop of app.py 97; tmp is
\* the array np.append has built and not yet stored; filled is the set of
\* columns the loop of app.py 108-110 added; calls are the functions run;
\* first is the outcome of the preceding call when the call repeats it.
NoFirst == [valid |-> FALSE, vector |-> <<>>, encs |-> <<>>]

IdleFrame ==
    [entry |-> "", req |-> NotJson, df |-> <<>>, col |-> 0, tmp |-> <<>>,
     errors |-> <<>>, filled |-> {}, vector |-> <<>>, raised |-> NoExc,
     resp |-> NoResp, calls |-> {}, first |-> NoFirst]

Init ==
    /\ label_encoders \in Bundles
    /\ pc = [t \in Threads |-> "idle"]
    /\ frame = [t \in Threads |-> IdleFrame]

\* ------------------------------------------------------------------------
\* preprocess_input, app.py 93-117, step by step.

\* The loop head of app.py 97-98: the next encoder column, from position i
\* on, that is a column of df; Len + 1 when the loop is over.
NextCol(df, i) ==
    IF \E j \in i..Len(label_encoders) : label_encoders[j][1] \in Keys(df)
    THEN CHOOSE j \in i..Len(label_encoders) :
            /\ label_encoders[j][1] \in Keys(df)
            /\ \A k \in i..(j - 1) : label_encoders[k][1] \notin Keys(df)
    ELSE Len(label_encoders) + 1

LoopPc(j) == IF j <= Len(label_encoders) THEN "apply" ELSE "fill"

\* app.py 94: df = pd.DataFrame([data]), then the loop head.
Enter(entry, req, first) ==
    [IdleFrame EXCEPT
        !.entry = entry, !.req = req, !.df = req.json.pairs,
        !.col = NextCol(req.json.pairs, 1),
        !.calls = (IF entry = "predict" THEN {"validate_input"} ELSE {})
                      \cup {"preprocess_input"},
        !.first = first]

Col(t)     == label_encoders[frame[t].col][1]
Classes(t) == label_encoders[frame[t].col][2]

\* app.py 101: df[col] = df[col].apply(lambda x: x if x in le.classes_ else 'Unknown')
Apply(t) ==
    /\ pc[t] = "apply"
    /\ frame' = [frame EXCEPT ![t].df =
                    Put(@, Col(t), Substitute(Lookup(@, Col(t)), Classes(t)))]
    /\ pc' = [pc EXCEPT ![t] = "check"]
    /\ UNCHANGED label_encoders

\* app.py 103: if 'Unknown' not in le.classes_
Check(t) ==
    /\ pc[t] = "check"
    /\ pc' = [pc EXCEPT ![t] = IF HasUnknown(Classes(t)) THEN "transform" ELSE "read"]
    /\ UNCHANGED << label_encoders, frame >>

\* app.py 104, right-hand side: np.append(le.classes_, 'Unknown')
Read(t) ==
    /\ pc[t] = "read"
    /\ frame' = [frame EXCEPT ![t].tmp = np_append(Classes(t))]
    /\ pc' = [pc EXCEPT ![t] = "write"]
    /\ UNCHANGED label_encoders

\* app.py 104, the assignment: le.classes_ = <the new array>
Write(t) ==
    /\ pc[t] = "write"
    /\ label_encoders' = [label_encoders EXCEPT ![frame[t].col][2] = frame[t].tmp]
    /\ frame' = [frame EXCEPT ![t].tmp = <<>>]
    /\ pc' = [pc EXCEPT ![t] = "transform"]

\* app.py 154-156: predict() answers a ValueError with 400 and its text.
Caught(f, e) ==
    [f EXCEPT !.raised = e,
              !.resp = IF f.entry = "predict"
                       THEN ErrorResp(400, e.msg, <<>>)
                       ELSE NoResp]

\* app.py 105: df[col] = le.transform(df[col]); a raise leaves through
\* app.py 115-117.  Then the loop head again.
Transform(t) ==
    /\ pc[t] = "transform"
    /\ LET r == transform(Classes(t), Lookup(frame[t].df, Col(t)))
           df2 == Put(frame[t].df, Col(t), IntV(r.code))
           j == NextCol(df2, frame[t].col + 1)
       IN IF r.raised.type # "none"
          THEN /\ frame' = [frame EXCEPT ![t] = Caught(@, Wrapped(r.raised))]
               /\ pc' = [pc EXCEPT ![t] = "done"]
          ELSE /\ frame' = [frame EXCEPT ![t].df = df2, ![t].col = j]
               /\ pc' = [pc EXCEPT ![t] = LoopPc(j)]
    /\ UNCHANGED label_encoders

\* app.py 107-114: zero fill, reorder, return df.values.
Fill(t) ==
    /\ pc[t] = "fill"
    /\ frame' = [frame EXCEPT ![t].filled = MissingColumns(frame[t].df),
                              ![t].df = ZeroFill(@, 1),
                              ![t].vector = Reorder(ZeroFill(frame[t].df, 1))]
    /\ pc' = [pc EXCEPT ![t] = IF frame[t].entry = "predict" THEN "model" ELSE "done"]
    /\ UNCHANGED label_encoders

\* ------------------------------------------------------------------------
\* predict, app.py 128-159.

\* app.py 128-140 up to the call of preprocess_input: the content type,
\* request.json, validate_input.  An exception of request.json (BadRequest)
\* or of validate_input (TypeError) is no ValueError and is answered by
\* app.py 157-159.
Rejected(req, calls, errors, resp) ==
    [IdleFrame EXCEPT !.entry = "predict", !.req = req, !.calls = calls,
                      !.errors = errors, !.resp = resp]

\* A faulty predict() that calls preprocess_input above the test of
\* validation_errors: a record with validation errors is still rejected, but
\* the encoders of its columns have got their 'Unknown' by then.
PredictOnEager(t, requests) ==
    /\ pc[t] = "idle"
    /\ \E req \in requests :
         LET v == validate_input(req.json) IN
         /\ req.is_json /\ req.parses
         /\ v.raised.type = "none"
         /\ IF v.errors # <<>>
            THEN /\ frame' = [frame EXCEPT ![t] =
                       Rejected(req, {"validate_input", "preprocess_input"}, v.errors,
                                ErrorResp(400, <<"Validation failed">>, v.errors))]
                 /\ pc' = [pc EXCEPT ![t] = "done"]
                 /\ label_encoders' =
                       [i \in 1..Len(label_encoders) |->
                          IF label_encoders[i][1] \in Keys(req.json.pairs)
                             /\ ~HasUnknown(label_encoders[i][2])
                          THEN << label_encoders[i][1], np_append(label_encoders[i][2]) >>
                          ELSE label_encoders[i]]
            ELSE /\ frame' = [frame EXCEPT ![t] = Enter("predict", req, NoFirst)]
                 /\ pc' = [pc EXCEPT ![t] = LoopPc(NextCol(req.json.pairs, 1))]
                 /\ UNCHANGED label_encoders

PredictOn(t, requests) ==
    /\ pc[t] = "idle"
    /\ \E req \in requests :
         LET v == validate_input(req.json) IN
         IF ~req.is_json
         THEN /\ frame' = [frame EXCEPT ![t] =
                    Rejected(req, {}, <<>>, ErrorResp(400, <<"Request must be JSON">>, <<>>))]
              /\ pc' = [pc EXCEPT ![t] = "done"]
         ELSE IF ~req.parses
         THEN /\ frame' = [frame EXCEPT ![t] = Rejected(req, {}, <<>>, InternalError)]
              /\ pc' = [pc EXCEPT ![t] = "done"]
         ELSE IF v.raised.type # "none"
         THEN /\ frame' = [frame EXCEPT ![t] =
                    Rejected(req, {"validate_input"}, <<>>, InternalError)]
              /\ pc' = [pc EXCEPT ![t] = "done"]
         ELSE IF v.errors # <<>>
         THEN /\ frame' = [frame EXCEPT ![t] =
                    Rejected(req, {"validate_input"}, v.errors,
                             ErrorResp(400, <<"Validation failed">>, v.errors))]
              /\ pc' = [pc EXCEPT ![t] = "done"]
         ELSE /\ frame' = [frame EXCEPT ![t] = Enter("predict", req, NoFirst)]
              /\ pc' = [pc EXCEPT ![t] = LoopPc(NextCol(req.json.pairs, 1))]
    /\ UNCHANGED label_encoders

\* A request of one of the concurrent clients.
Predict(t) == PredictOn(t, ConcurrentRequests)

\* app.py 141-159: the model, the response, the two handlers.
InvokeModel(t) ==
    /\ pc[t] = "model"
    /\ \E out \in ModelOutcomes :
         frame' = [frame EXCEPT
            ![t].calls = @ \cup {"model"},
            ![t].raised = out.raised,
            ![t].resp = CASE out.raised.type = "none"       -> OkResp(out.pred)
                          [] out.raised.type = "ValueError" -> ErrorResp(400, out.raised.msg, <<>>)
                          [] OTHER                          -> InternalError]
    /\ pc' = [pc EXCEPT ![t] = "done"]
    /\ UNCHANGED label_encoders

Step(t) ==
    \/ Apply(t)
    \/ Check(t)
    \/ Read(t)
    \/ Write(t)
    \/ Transform(t)
    \/ Fill(t)
    \/ InvokeModel(t)

\* The server under load: each of the NumThreads workers serves one
\* request, interleaved with the others.
Next == \E t \in Threads : Predict(t) \/ Step(t)

Spec == Init /\ [][Next]_vars

\* ------------------------------------------------------------------------
\* One caller at a time: a single thread that posts requests to /predict
\* and calls validate_input and preprocess_input directly, one call after
\* the other.
Caller == CHOOSE t \in Threads : \A u \in Threads : t <= u

PredictSeq(t) == PredictOn(t, AllRequests)

\* validate_input(data) on a dict.
CallValidate(t) ==
    /\ pc[t] = "idle"
    /\ \E r \in Records :
         LET v == validate_input(Object(r)) IN
         frame' = [frame EXCEPT ![t] =
            [IdleFrame EXCEPT !.entry = "validate_input", !.req = Json(Object(r)),
                              !.calls = {"validate_input"},
                              !.errors = v.errors, !.raised = v.raised]]
    /\ pc' = [pc EXCEPT ![t] = "done"]
    /\ UNCHANGED label_encoders

\* preprocess_input(data) on a dict.
CallPreprocess(t) ==
    /\ pc[t] = "idle"
    /\ \E r \in Records :
         /\ frame' = [frame EXCEPT ![t] =
                Enter("preprocess_input", Json(Object(r)), NoFirst)]
         /\ pc' = [pc EXCEPT ![t] = LoopPc(NextCol(r, 1))]
    /\ UNCHANGED label_encoders

\* preprocess_input(data) once more on the record of the call that has just
\* returned; first keeps that call's vector and the encoders it left.
CallAgain(t) ==
    /\ pc[t] = "done"
    /\ frame[t].entry = "preprocess_input"
    /\ frame[t].raised.type = "none"
    /\ ~frame[t].first.valid
    /\ frame' = [frame EXCEPT ![t] =
            Enter("preprocess_input", frame[t].req,
                  [valid |-> TRUE, vector |-> frame[t].vector, encs |-> label_encoders])]
    /\ pc' = [pc EXCEPT ![t] = LoopPc(NextCol(frame[t].req.json.pairs, 1))]
    /\ UNCHANGED label_encoders

\* The call is over and its locals are gone.
Return(t) ==
    /\ pc[t] = "done"
    /\ frame' = [frame EXCEPT ![t] = IdleFrame]
    /\ pc' = [pc EXCEPT ![t] = "idle"]
    /\ UNCHANGED label_encoders

SeqNext ==
    \/ PredictSeq(Caller)
    \/ CallValidate(Caller)
    \/ CallPreprocess(Caller)
    \/ CallAgain(Caller)
    \/ Return(Caller)
    \/ Step(Caller)

SpecSeq == Init /\ [][SeqNext]_vars

\* ------------------------------------------------------------------------
\* Vocabulary of the properties.

Done(t)      == pc[t] = "done"
Data(t)      == frame[t].req.json.pairs
Encoded(t)   == Len(frame[t].vector) > 0          \* preprocess_input has returned
Scalar(data) == \A i \in 1..Len(data) : data[i][2].t \in {"str", "int", "float"}

EncoderCols      == Keys(label_encoders)
ClassesOf(c)     == Lookup(label_encoders, c)
Occurrences(classes, s) == { i \in 1..Len(classes) : classes[i] = s }
Count(errors, m) == Cardinality({ i \in 1..Len(errors) : errors[i] = m })
Position(f)      == CHOOSE i \in 1..Len(FEATURES) : FEATURES[i] = f

\* The five features the schema designates as numeric.
NumericDesignated ==
    { "Item_price", "connected_handling_time", "response_delay",
      "survey_delay", "sentiment_score" }

\* The code an encoder assigns to a class: its 0-based position.
CodeOf(classes, s) == (CHOOSE i \in 1..Len(classes) : classes[i] = s) - 1

\* x is none of the trained classes of the encoder (leaving aside the
\* sentinel itself).
Unseen(x, classes) == ~(x.t = "str" /\ x.s \in Range(classes) \ {"Unknown"})

\* The response of app.py 130 or of app.py 137.
EarlyRejected(f) ==
    /\ f.entry = "predict"
    /\ f.resp.status = 400
    /\ f.resp.error \in { <<"Request must be JSON">>, <<"Validation failed">> }

\* ------------------------------------------------------------------------
\* C1: under any interleaving of concurrent preprocess_input calls, no
\* encoder's class set holds "Unknown" more than once.
C1_UnknownAtMostOnce ==
    \A i \in 1..Len(label_encoders) :
        Cardinality(Occurrences(label_encoders[i][2], "Unknown")) <= 1

\* C2: validate_input on a dict returns exactly one "Missing required
\* feature" message per schema feature that is no key of the record, one
\* "must be numeric" message per numeric-designated feature that is present
\* and holds no int or float, none for one that holds an int or a float,
\* and nothing else; all failures are reported together.
C2_ValidateExact ==
    \A t \in Threads :
        (Done(t) /\ "validate_input" \in frame[t].calls
                 /\ frame[t].req.json.kind = "object"
                 /\ frame[t].req.parses) =>
            LET data == Data(t)
                errors == frame[t].errors
            IN /\ frame[t].raised.type # "TypeError"
               /\ \A f \in Range(FEATURES) :
                     Count(errors, MissingMsg(f)) = IF f \in Keys(data) THEN 0 ELSE 1
               /\ \A f \in NumericDesignated :
                     Count(errors, NumericMsg(f)) =
                        IF f \in Keys(data) /\ Lookup(data, f).t \notin {"int", "float"}
                        THEN 1 ELSE 0
               /\ \A i \in 1..Len(errors) :
                     errors[i] \in { MissingMsg(f) : f \in Range(FEATURES) }
                                    \cup { NumericMsg(f) : f \in NumericDesignated }

C2_Witness ==
    \E t \in Threads :
        /\ Done(t) /\ frame[t].entry = "validate_input"
        /\ Len(frame[t].errors) = 2
        /\ \E f \in Range(FEATURES) : frame[t].errors[1] = MissingMsg(f)
        /\ \E f \in NumericDesignated : frame[t].errors[2] = NumericMsg(f)

\* C3: a validated record (of strings and numbers) whose value for an
\* encoder column is none of the encoder's classes never makes the encoding
\* raise: preprocess_input returns, the vector entry of that column is the
\* code of "Unknown" in that encoder, and POST /predict goes on to the model
\* and answers 200 when the model returns, so no error response comes from
\* the encoding.
C3_UnseenNeverRaises ==
    \A t \in Threads :
        (/\ frame[t].entry = "predict"
         /\ "preprocess_input" \in frame[t].calls
         /\ Scalar(Data(t))
         /\ \E c \in EncoderCols \cap Range(FEATURES) :
               Unseen(Lookup(Data(t), c), ClassesOf(c))) =>
            /\ Done(t) => /\ "model" \in frame[t].calls
                          /\ Encoded(t)
                          /\ frame[t].resp.status = 200 <=> frame[t].raised.type = "none"
            /\ Encoded(t) =>
                  \A c \in EncoderCols \cap Range(FEATURES) :
                      Unseen(Lookup(Data(t), c), ClassesOf(c)) =>
                          /\ Cardinality(Occurrences(ClassesOf(c), "Unknown")) = 1
                          /\ frame[t].vector[Position(c)]
                                = IntV(CodeOf(ClassesOf(c), "Unknown"))

C3_Witness ==
    \E t \in Threads :
        /\ Done(t) /\ frame[t].entry = "predict"
        /\ frame[t].resp.status = 200
        /\ "channel_name" \in EncoderCols
        /\ Lookup(Data(t), "channel_name") = StrV("Chat")
        /\ frame[t].vector[1] = IntV(CodeOf(ClassesOf("channel_name"), "Unknown"))

\* C4: for every record of strings and numbers, whatever the order of its
\* keys and whatever other keys it carries, preprocess_input returns a
\* vector of length 11 whose i-th entry belongs to the i-th schema feature:
\* the encoder's code if the column has an encoder, the raw value
\* otherwise, 0 if the record lacks the feature.
C4_VectorInSchemaOrder ==
    \A t \in Threads :
        ("preprocess_input" \in frame[t].calls /\ Scalar(Data(t))) =>
            /\ Done(t) => Encoded(t)
            /\ Encoded(t) =>
                 /\ Len(frame[t].vector) = 11
                 /\ \A i \in 1..11 :
                      LET f == FEATURES[i] IN
                      frame[t].vector[i] =
                        IF f \notin Keys(Data(t)) THEN IntV(0)
                        ELSE IF f \in EncoderCols
                        THEN LET x == Lookup(Data(t), f) IN
                             IntV(CodeOf(ClassesOf(f),
                                         IF Unseen(x, ClassesOf(f)) THEN "Unknown" ELSE x.s))
                        ELSE Lookup(Data(t), f)

C4_Witness ==
    \E t \in Threads :
        /\ Done(t) /\ frame[t].entry = "preprocess_input"
        /\ Data(t)[1][1] = ExtraKey
        /\ "sentiment_score" \notin Keys(Data(t))
        /\ "channel_name" \in EncoderCols
        /\ frame[t].vector[8] = IntV(0)
        /\ frame[t].vector[4] = IntV(100)

\* C5: preprocess_input called twice in a row on the same record, with no
\* other call in between, returns the same vector both times, and the
\* second call leaves every encoder as the first call left it.
C5_EncodingIdempotent ==
    \A t \in Threads :
        frame[t].first.valid =>
            /\ label_encoders = frame[t].first.encs
            /\ Done(t) => /\ frame[t].raised.type = "none"
                          /\ frame[t].vector = frame[t].first.vector

C5_Witness ==
    \E t \in Threads :
        /\ Done(t) /\ frame[t].first.valid /\ Encoded(t)
        /\ "channel_name" \in Keys(Data(t))
        /\ label_encoders[1] = <<"channel_name", <<"Email", "Inbound", "Outcall", "Unknown">> >>
        /\ Lookup(Data(t), "channel_name") = StrV("Chat")
        /\ frame[t].vector[1] = IntV(3)

\* C6: an exception of whatever type raised by the model or by the assembly
\* of the response yields 500 with the generic body, never its own message.
C6_ModelErrorIs500 ==
    \A t \in Threads :
        (Done(t) /\ "model" \in frame[t].calls /\ frame[t].raised.type # "none") =>
            frame[t].resp = InternalError

\* C7: a request to POST /predict that fails before the model is called
\* (not JSON, unparseable, validation errors or validation not applicable,
\* a preprocessing failure) is answered 400, never 500.
C7_EarlyFailureIs400 ==
    \A t \in Threads :
        (Done(t) /\ frame[t].entry = "predict" /\ "model" \notin frame[t].calls) =>
            frame[t].resp.status = 400

\* C8: in every step each encoder's class sequence stays as it is or gets
\* "Unknown" appended at its end; nothing is removed or reordered.
C8_AppendOnly ==
    [][\A i \in 1..Len(label_encoders) :
          \/ label_encoders'[i][2] = label_encoders[i][2]
          \/ label_encoders'[i][2] = Append(label_encoders[i][2], "Unknown")]_vars

\* C9: a request rejected as not JSON or with validation errors has run
\* neither preprocess_input nor the model, and the step that rejects it
\* leaves every encoder unchanged.
C9_EarlyRejectionNoEffect ==
    [][\A t \in Threads :
          (pc'[t] = "done" /\ pc[t] # "done" /\ EarlyRejected(frame'[t])) =>
              /\ label_encoders' = label_encoders
              /\ frame'[t].calls \cap {"preprocess_input", "model"} = {}
              /\ pc[t] = "idle"]_vars

C9_Witness ==
    \E t \in Threads :
        /\ Done(t) /\ EarlyRejected(frame[t])
        /\ frame[t].resp.details = << MissingMsg("sentiment_score") >>
        /\ \E i \in 1..Len(label_encoders) : ~HasUnknown(label_encoders[i][2])

\* C10: in POST /predict the zero fill never acts: the record that reaches
\* preprocess_input holds all 11 schema keys, so no column is added with 0,
\* whatever columns the encoder bundle covers.
C10_ZeroFillDead ==
    \A t \in Threads :
        (frame[t].entry = "predict" /\ "preprocess_input" \in frame[t].calls) =>
            /\ Range(FEATURES) \subseteq Keys(Data(t))
            /\ MissingColumns(frame[t].df) = {}
            /\ frame[t].filled = {}

C10_Witness ==
    \E t \in Threads :
        /\ pc[t] = "model" /\ frame[t].entry = "predict"
        /\ Encoded(t)
        /\ frame[t].filled = {}
        /\ EncoderCols \cap Range(FEATURES) = {"channel_name"}

====
